---- MODULE Spec2Model ----
(***************************************************************************)
(* A model of redis_manager.py: the interactive controller                 *)
(* (RedisManager.run), the translation of a connection record into         *)
(* redis-py options (RedisManager._connect), the pattern scan and the      *)
(* chunked pattern delete, against a key-value store that other clients    *)
(* may mutate.                                                             *)
(*                                                                         *)
(* Python values are tagged pairs <<tag, payload>>; a Python str is a      *)
(* tuple of one-character strings, so that lower(), upper() and strip()    *)
(* are computed character by character.                                    *)
(***************************************************************************)
EXTENDS Integers, Sequences, FiniteSets, TLC

VARIABLES
    pc,               \* where the controller is: "select", "connecting", "ack_ok", "ack_fail", "ops", "confirm", "deleting", "pause", "terminated"
    config,           \* self.config: environment name -> connection record
    env_keys,         \* list(self.config.keys()): the sections in file order
    files,            \* the paths for which os.path.exists is true
    conn_details,     \* run(): the local conn_details handed to _connect
    display_name,     \* run(): the local display_name handed to _connect
    redis_conn,       \* self.redis_conn: None or a client handle
    current_env_name, \* self.current_env_name
    connect_ret,      \* the value the latest _connect call returned (None before any)
    attempt,          \* the latest redis.Redis(...) call: its record, its options, the screen at the call
    conn_seq,         \* how many clients have been constructed
    screen,           \* what has been printed since the last clear_screen()
    store,            \* the keyspace of the server: key -> value
    keys_to_delete,   \* _delete_keys_by_pattern: the scan result awaiting confirmation / being deleted
    deleted_count,    \* _delete_keys_by_pattern: the accumulator
    idx,              \* _delete_keys_by_pattern: the loop variable i
    op,               \* the handler the operations loop dispatched last ("" before any)
    typed,            \* the confirmation typed in that handler, if it asked for one
    calls,            \* the commands that handler has sent to the server, in order
    exit_code         \* the process exit status once terminated

vars == <<pc, config, env_keys, files, conn_details, display_name, redis_conn,
          current_env_name, connect_ret, attempt, conn_seq, screen, store,
          keys_to_delete, deleted_count, idx, op, typed, calls, exit_code>>

-----------------------------------------------------------------------------
(* Bounds of the model *)

MaxUser == 1200       \* user:0001 .. user:MaxUser may exist in the store
MaxOrder == 1         \* order:0001 .. order:MaxOrder may exist in the store
MaxConnects == 2      \* clients constructed in one run
MaxScreen == 3        \* lines kept on the screen while re-prompting

-----------------------------------------------------------------------------
(* Python strings *)

UpperAlpha == <<"A","B","C","D","E","F","G","H","I","J","K","L","M",
                "N","O","P","Q","R","S","T","U","V","W","X","Y","Z">>
LowerAlpha == <<"a","b","c","d","e","f","g","h","i","j","k","l","m",
                "n","o","p","q","r","s","t","u","v","w","x","y","z">>
DigitChars == <<"0","1","2","3","4","5","6","7","8","9">>

LowerChar(c) ==
    IF \E i \in 1..26 : UpperAlpha[i] = c
    THEN LowerAlpha[CHOOSE i \in 1..26 : UpperAlpha[i] = c]
    ELSE c

UpperChar(c) ==
    IF \E i \in 1..26 : LowerAlpha[i] = c
    THEN UpperAlpha[CHOOSE i \in 1..26 : LowerAlpha[i] = c]
    ELSE c

\* str.lower()
Lower(s) == [i \in 1..Len(s) |-> LowerChar(s[i])]

\* str.upper()
Upper(s) == [i \in 1..Len(s) |-> UpperChar(s[i])]

\* str.strip(): leading and trailing whitespace removed
Strip(s) ==
    LET ink == {i \in 1..Len(s) : s[i] # " "}
    IN  IF ink = {} THEN <<>>
        ELSE LET lo == CHOOSE i \in ink : \A j \in ink : i <= j
                 hi == CHOOSE i \in ink : \A j \in ink : j <= i
             IN  SubSeq(s, lo, hi)

IsDigit(c) == \E i \in 1..10 : DigitChars[i] = c
DigitValue(c) == (CHOOSE i \in 1..10 : DigitChars[i] = c) - 1

\* int(s) succeeds on a (whitespace-padded) non-empty run of decimal digits;
\* anything else raises ValueError.
IntParses(s) ==
    LET t == Strip(s) IN Len(t) > 0 /\ \A i \in 1..Len(t) : IsDigit(t[i])

RECURSIVE DigitsValue(_)
DigitsValue(t) ==
    IF Len(t) = 0 THEN 0
    ELSE 10 * DigitsValue(SubSeq(t, 1, Len(t) - 1)) + DigitValue(t[Len(t)])

ParseInt(s) == DigitsValue(Strip(s))

\* str(n) for a natural number
RECURSIVE IntToStr(_)
IntToStr(n) ==
    IF n < 10 THEN <<DigitChars[n + 1]>>
    ELSE IntToStr(n \div 10) \o <<DigitChars[(n % 10) + 1]>>

-----------------------------------------------------------------------------
(* Python values *)

PyNone == <<"none", <<>>>>
PyStrV(s) == <<"str", s>>
PyBool(b) == <<"bool", <<b>>>>
PyInt(n) == <<"int", <<n>>>>

\* str(v)
PyStr(v) ==
    CASE v[1] = "str"  -> v[2]
      [] v[1] = "bool" -> IF v[2][1] THEN <<"T","r","u","e">> ELSE <<"F","a","l","s","e">>
      [] v[1] = "int"  -> IntToStr(v[2][1])
      [] v[1] = "none" -> <<"N","o","n","e">>

\* bool(v): the truth value Python gives v in a condition
Truthy(v) ==
    CASE v[1] = "str"  -> Len(v[2]) > 0
      [] v[1] = "bool" -> v[2][1]
      [] v[1] = "int"  -> v[2][1] # 0
      [] v[1] = "none" -> FALSE

\* dict.get(k, default)
Get(d, k, default) == IF k \in DOMAIN d THEN d[k] ELSE default

\* dict.pop(k, None) for each k of ks
Pop(d, ks) == [k \in (DOMAIN d) \ ks |-> d[k]]

\* d[k] = v
Put(d, k, v) == [x \in (DOMAIN d) \cup {k} |-> IF x = k THEN v ELSE d[x]]

EmptyDict == [k \in {} |-> PyNone]

-----------------------------------------------------------------------------
(* String literals *)

S_true == <<"t","r","u","e">>
S_True == <<"T","r","u","e">>
S_TRUE == <<"T","R","U","E">>
S_false == <<"f","a","l","s","e">>
S_False == <<"F","a","l","s","e">>
S_yes == <<"y","e","s">>
S_Yes == <<"Y","e","s">>
S_no == <<"n","o">>
S_NO == <<"N","O">>
S_y == <<"y">>
S_Y == <<"Y">>
S_n == <<"n">>
S_N_padded == <<" ","N"," ">>
S_1 == <<"1">>
S_0 == <<"0">>
S_on == <<"o","n">>
S_off == <<"o","f","f">>
S_empty == <<>>
S_blank == <<" "," ">>
S_host == <<"h","1">>
S_host_padded == <<" ","h","1"," ">>
S_6379 == <<"6","3","7","9">>
S_port_bad == <<"6","3","7","9","x">>
S_pw == <<"p","w">>
S_ca_here == <<"/","c","a","1">>      \* a CA bundle path
S_ca_gone == <<"/","c","a","2">>      \* another CA bundle path
S_certifi == <<"/","c","e","r","t","i","f","i">>   \* what certifi.where() returns
S_custom == <<"c","u","s","t","o","m">>
S_dev == <<"d","e","v">>
S_DELETE == <<"D","E","L","E","T","E">>
S_delete == <<"d","e","l","e","t","e">>
S_DELETE_padded == <<"D","E","L","E","T","E"," ">>

-----------------------------------------------------------------------------
(* _connect: the translation of a connection record to redis-py options *)

TrueWords == {S_true, S_1, S_y, S_yes}

\* str(d.get(k, default)).lower() in ('true', '1', 'y', 'yes')
Flag(d, k, default) == Lower(PyStr(Get(d, k, PyStrV(default)))) \in TrueWords

\* os.path.exists(path)
PathExists(path) == path \in files

\* TlsOptions with the custom CA bundle also kept when verification is off
TlsOptions_KeepsCa(d) ==
    LET verify_tls == Flag(d, "tls_verify", S_true)
        custom_ca_path == Get(d, "tls_ca_certs_path", PyNone)
        withCa == IF Truthy(custom_ca_path) /\ PathExists(PyStr(custom_ca_path))
                  THEN Put(d, "ssl_ca_certs", custom_ca_path)
                  ELSE Put(d, "ssl_ca_certs", PyStrV(S_certifi))
    IN  IF ~verify_tls THEN Put(withCa, "ssl_cert_reqs", PyNone) ELSE withCa

\* TlsOptions without the os.path.exists test
TlsOptions_NoExistsCheck(d) ==
    LET verify_tls == Flag(d, "tls_verify", S_true)
        custom_ca_path == Get(d, "tls_ca_certs_path", PyNone)
    IN  IF ~verify_tls
        THEN Put(d, "ssl_cert_reqs", PyNone)
        ELSE IF Truthy(custom_ca_path)
             THEN Put(d, "ssl_ca_certs", custom_ca_path)
             ELSE Put(d, "ssl_ca_certs", PyStrV(S_certifi))

\* lines 123-132: the ssl_* options of a TLS connection
TlsOptions(d) ==
    LET verify_tls == Flag(d, "tls_verify", S_true)
        custom_ca_path == Get(d, "tls_ca_certs_path", PyNone)
    IN  IF ~verify_tls
        THEN Put(d, "ssl_cert_reqs", PyNone)
        ELSE IF Truthy(custom_ca_path) /\ PathExists(PyStr(custom_ca_path))
             THEN Put(d, "ssl_ca_certs", custom_ca_path)
             ELSE Put(d, "ssl_ca_certs", PyStrV(S_certifi))

UserFacingKeys == {"tls", "tls_verify", "tls_ca_certs_path", "legacymode"}

\* FinalConnDetails with the ssl_* options resolved whether or not TLS is on
FinalConnDetails_AlwaysTls(d) ==
    LET is_tls == Flag(d, "tls", S_false)
        is_legacy == Flag(d, "legacymode", S_false)
        d1 == Put(d, "ssl", PyBool(is_tls))
        d2 == IF is_legacy THEN Put(d1, "protocol", PyInt(2)) ELSE d1
    IN  Pop(TlsOptions(d2), UserFacingKeys)

\* lines 112-138: final_conn_details
FinalConnDetails(d) ==
    LET is_tls == Flag(d, "tls", S_false)
        is_legacy == Flag(d, "legacymode", S_false)
        d1 == Put(d, "ssl", PyBool(is_tls))
        d2 == IF is_legacy THEN Put(d1, "protocol", PyInt(2)) ELSE d1
        d3 == IF is_tls THEN TlsOptions(d2) ELSE d2
    IN  Pop(d3, UserFacingKeys)

\* line 141: the keyword arguments redis.Redis is called with
RedisKwargs(d) ==
    Put(Put(FinalConnDetails(d), "decode_responses", PyBool(TRUE)),
        "socket_connect_timeout", PyInt(5))

-----------------------------------------------------------------------------
(* Messages on the terminal: <<kind, payload>>, the payload a set *)

Msg(kind) == <<kind, {}>>
MsgWith(kind, x) == <<kind, {x}>>
OnScreen(kind) == \E i \in 1..Len(screen) : screen[i][1] = kind

-----------------------------------------------------------------------------
(* _prompt_for_custom_details *)

YesWords == {S_y, S_yes}
NoWords == {S_n, S_no}

\* input(...).lower().strip() or default
Answer(raw, default) ==
    LET a == Strip(Lower(raw)) IN IF Len(a) = 0 THEN default ELSE a

\* lines 84-98: the tls, tls_verify and tls_ca_certs_path entries
PromptTls(details, tls_in, verify_in, ca_in) ==
    IF Answer(tls_in, S_y) \in YesWords
    THEN IF Answer(verify_in, S_y) \in NoWords
         THEN Put(Put(details, "tls", PyBool(TRUE)), "tls_verify", PyBool(FALSE))
         ELSE LET d == Put(Put(details, "tls", PyBool(TRUE)), "tls_verify", PyBool(TRUE))
              IN  IF Len(Strip(ca_in)) > 0
                  THEN Put(d, "tls_ca_certs_path", PyStrV(Strip(ca_in)))
                  ELSE d
    ELSE Put(details, "tls", PyBool(FALSE))

\* line 90 is reached
PromptWarns(tls_in, verify_in) ==
    Answer(tls_in, S_y) \in YesWords /\ Answer(verify_in, S_y) \in NoWords

\* The whole prompt. cancel is where KeyboardInterrupt/EOFError arrives:
\* "no" (nowhere), "host" (at the first input) or "legacy" (at the last).
\* Result: [ok, details, out]: whether a record is returned, the record, and
\* what was printed after the header.
PromptForCustomDetails(host_in, port_in, db_in, pw_in, tls_in, verify_in, ca_in, legacy_in, cancel) ==
    LET host == Strip(host_in)
        port_str == Strip(port_in)
        db_str == IF Len(db_in) = 0 THEN S_0 ELSE db_in
        none == [ok |-> FALSE, details |-> EmptyDict, out |-> <<>>]
        failed == [ok |-> FALSE, details |-> EmptyDict, out |-> <<Msg("invalid_or_cancelled")>>]
        warning == IF PromptWarns(tls_in, verify_in) THEN <<Msg("tls_verify_warning")>> ELSE <<>>
    IN  IF cancel = "host" THEN failed
        ELSE IF Len(host) = 0 THEN none
        ELSE IF Len(port_str) > 0 /\ ~IntParses(port_str) THEN failed
        ELSE IF ~IntParses(db_str) THEN failed
        ELSE IF cancel = "legacy"
             THEN [ok |-> FALSE, details |-> EmptyDict,
                   out |-> warning \o <<Msg("invalid_or_cancelled")>>]
        ELSE LET d1 == Put(EmptyDict, "host", PyStrV(host))
                 d2 == Put(d1, "port", PyInt(IF Len(port_str) > 0 THEN ParseInt(port_str) ELSE 6380))
                 d3 == Put(d2, "db", PyInt(ParseInt(db_str)))
                 d4 == Put(d3, "password", IF Len(pw_in) > 0 THEN PyStrV(pw_in) ELSE PyNone)
                 d5 == PromptTls(d4, tls_in, verify_in, ca_in)
                 d6 == Put(d5, "legacymode", PyBool(Answer(legacy_in, S_n) \in YesWords))
             IN  [ok |-> TRUE, details |-> d6, out |-> warning]

\* line 195: f"Custom ({conn_details['host']}:{conn_details['port']})"
CustomDisplayName(d) ==
    <<"C","u","s","t","o","m"," ","(">> \o PyStr(d["host"]) \o <<":">>
        \o PyStr(d["port"]) \o <<")">>

-----------------------------------------------------------------------------
(* The controller: RedisManager.run, _select_environment, _connect *)

NoConn == [id |-> 0, opts |-> EmptyDict]          \* self.redis_conn = None
NoAttempt == [made |-> FALSE, details |-> EmptyDict, opts |-> EmptyDict, screen |-> <<>>]

SelectMenu == <<Msg("select_menu")>>               \* clear_screen() and the menu of lines 39-50
OpsMenu == <<Msg("ops_menu")>>                     \* clear_screen() and the menu of lines 154-167

S_2 == <<"2">>
S_3 == <<"3">>
S_4 == <<"4">>
S_x == <<"x">>
ChoiceInputs == {S_1, S_2, S_3, S_4, S_x, S_empty}

\* The locals and the pattern-delete state a step leaves alone
UNCHANGED_delete == UNCHANGED <<keys_to_delete, deleted_count, idx>>
UNCHANGED_op == UNCHANGED <<op, typed, calls>>
UNCHANGED_env == UNCHANGED <<config, env_keys, files>>
UNCHANGED_session == UNCHANGED <<redis_conn, current_env_name, connect_ret, attempt, conn_seq>>

\* lines 52-65 with a choice that is not a number of the list: re-prompt
SelectInvalid(choice) ==
    /\ pc = "select"
    /\ Len(screen) < MaxScreen
    /\ \/ ~IntParses(choice)
       \/ /\ IntParses(choice)
          /\ ~(1 <= ParseInt(choice) /\ ParseInt(choice) <= Len(env_keys) + 2)
    /\ screen' = screen \o <<Msg("invalid_choice")>>
    /\ UNCHANGED <<pc, conn_details, display_name, store, exit_code>>
    /\ UNCHANGED_env /\ UNCHANGED_session /\ UNCHANGED_delete /\ UNCHANGED_op

\* lines 60-61 and 188-189, then main's handler (lines 340-342)
SelectExit(choice) ==
    /\ pc = "select"
    /\ IntParses(choice)
    /\ ParseInt(choice) = Len(env_keys) + 2
    /\ pc' = "terminated"
    /\ exit_code' = {0}
    /\ screen' = screen \o <<Msg("goodbye")>>
    /\ UNCHANGED <<conn_details, display_name, store>>
    /\ UNCHANGED_env /\ UNCHANGED_session /\ UNCHANGED_delete /\ UNCHANGED_op

\* what _select_environment returns for a valid choice that is not Exit
SelectedName(choice) ==
    IF ParseInt(choice) <= Len(env_keys) THEN env_keys[ParseInt(choice)] ELSE S_custom

\* lines 56-57 and 196-199: a configured environment is chosen
SelectConfigured(choice) ==
    /\ pc = "select"
    /\ IntParses(choice)
    /\ 1 <= ParseInt(choice) /\ ParseInt(choice) <= Len(env_keys) + 1
    /\ SelectedName(choice) # S_custom
    /\ LET name == SelectedName(choice)
       IN  /\ conn_details' = config[name]
           /\ display_name' = Upper(name)
           /\ IF DOMAIN config[name] # {}
              THEN pc' = "connecting" /\ UNCHANGED screen
              ELSE pc' = "select" /\ screen' = SelectMenu
    /\ UNCHANGED <<store, exit_code>>
    /\ UNCHANGED_env /\ UNCHANGED_session /\ UNCHANGED_delete /\ UNCHANGED_op

\* lines 58-59 (or 57 with a section named 'custom') and 192-195, 199:
\* the custom-details prompt
SelectCustom(choice, host_in, port_in, db_in, pw_in, tls_in, verify_in, ca_in, legacy_in, cancel) ==
    /\ pc = "select"
    /\ IntParses(choice)
    /\ 1 <= ParseInt(choice) /\ ParseInt(choice) <= Len(env_keys) + 1
    /\ SelectedName(choice) = S_custom
    /\ LET r == PromptForCustomDetails(host_in, port_in, db_in, pw_in, tls_in,
                                       verify_in, ca_in, legacy_in, cancel)
       IN  IF r.ok
           THEN /\ conn_details' = r.details
                /\ display_name' = CustomDisplayName(r.details)
                /\ screen' = <<Msg("custom_header")>> \o r.out
                /\ pc' = "connecting"
           ELSE /\ conn_details' = EmptyDict
                /\ display_name' = S_empty
                /\ screen' = SelectMenu
                /\ pc' = "select"
    /\ UNCHANGED <<store, exit_code>>
    /\ UNCHANGED_env /\ UNCHANGED_session /\ UNCHANGED_delete /\ UNCHANGED_op

\* the except clause without line 149: self.redis_conn keeps what it held
ConnAfterFailure_NotReset(held) == held

\* line 149: self.redis_conn = None, whatever it held when the exception came
ConnAfterFailure(held) == NoConn

\* Connect without the copy of line 112: the translation is done in the record
\* itself, which for a configured environment is the record self.config holds
Connect_InPlace(outcome) ==
    /\ pc = "connecting"
    /\ conn_seq < MaxConnects
    /\ attempt' = [made |-> TRUE, details |-> conn_details,
                   opts |-> RedisKwargs(conn_details), screen |-> screen]
    /\ conn_details' = FinalConnDetails(conn_details)
    /\ config' = [n \in DOMAIN config |->
                     IF n # S_custom /\ display_name = Upper(n)
                     THEN FinalConnDetails(conn_details) ELSE config[n]]
    /\ CASE outcome = "ok" ->
              /\ redis_conn' = [id |-> conn_seq + 1, opts |-> RedisKwargs(conn_details)]
              /\ conn_seq' = conn_seq + 1
              /\ current_env_name' = PyStrV(display_name)
              /\ screen' = screen \o <<Msg("connect_succeeded")>>
              /\ pc' = "ack_ok"
         [] outcome = "ping_error" ->
              /\ redis_conn' = ConnAfterFailure([id |-> conn_seq + 1,
                                                 opts |-> RedisKwargs(conn_details)])
              /\ conn_seq' = conn_seq + 1
              /\ screen' = screen \o <<Msg("connect_failed")>>
              /\ pc' = "ack_fail"
              /\ UNCHANGED current_env_name
         [] outcome = "ctor_error" ->
              /\ redis_conn' = ConnAfterFailure(redis_conn)
              /\ screen' = screen \o <<Msg("connect_failed")>>
              /\ pc' = "ack_fail"
              /\ UNCHANGED <<current_env_name, conn_seq>>
    /\ UNCHANGED <<display_name, connect_ret, store, exit_code, env_keys, files>>
    /\ UNCHANGED_delete /\ UNCHANGED_op

\* Connect without line 143: current_env_name keeps the name it had
Connect_KeepsEnvName(outcome) ==
    /\ pc = "connecting"
    /\ conn_seq < MaxConnects
    /\ attempt' = [made |-> TRUE, details |-> conn_details,
                   opts |-> RedisKwargs(conn_details), screen |-> screen]
    /\ CASE outcome = "ok" ->
              /\ redis_conn' = [id |-> conn_seq + 1, opts |-> RedisKwargs(conn_details)]
              /\ conn_seq' = conn_seq + 1
              /\ screen' = screen \o <<Msg("connect_succeeded")>>
              /\ pc' = "ack_ok"
              /\ UNCHANGED current_env_name
         [] outcome = "ping_error" ->
              /\ redis_conn' = ConnAfterFailure([id |-> conn_seq + 1,
                                                 opts |-> RedisKwargs(conn_details)])
              /\ conn_seq' = conn_seq + 1
              /\ screen' = screen \o <<Msg("connect_failed")>>
              /\ pc' = "ack_fail"
              /\ UNCHANGED current_env_name
         [] outcome = "ctor_error" ->
              /\ redis_conn' = ConnAfterFailure(redis_conn)
              /\ screen' = screen \o <<Msg("connect_failed")>>
              /\ pc' = "ack_fail"
              /\ UNCHANGED <<current_env_name, conn_seq>>
    /\ UNCHANGED <<conn_details, display_name, connect_ret, store, exit_code>>
    /\ UNCHANGED_env /\ UNCHANGED_delete /\ UNCHANGED_op

\* lines 110-144 and 147-149: the client is constructed and pinged
Connect(outcome) ==
    /\ pc = "connecting"
    /\ conn_seq < MaxConnects
    /\ attempt' = [made |-> TRUE, details |-> conn_details,
                   opts |-> RedisKwargs(conn_details), screen |-> screen]
    /\ CASE outcome = "ok" ->
              /\ redis_conn' = [id |-> conn_seq + 1, opts |-> RedisKwargs(conn_details)]
              /\ conn_seq' = conn_seq + 1
              /\ current_env_name' = PyStrV(display_name)
              /\ screen' = screen \o <<Msg("connect_succeeded")>>
              /\ pc' = "ack_ok"
         [] outcome = "ping_error" ->
              /\ redis_conn' = ConnAfterFailure([id |-> conn_seq + 1,
                                                 opts |-> RedisKwargs(conn_details)])
              /\ conn_seq' = conn_seq + 1
              /\ screen' = screen \o <<Msg("connect_failed")>>
              /\ pc' = "ack_fail"
              /\ UNCHANGED current_env_name
         [] outcome = "ctor_error" ->
              /\ redis_conn' = ConnAfterFailure(redis_conn)
              /\ screen' = screen \o <<Msg("connect_failed")>>
              /\ pc' = "ack_fail"
              /\ UNCHANGED <<current_env_name, conn_seq>>
    /\ UNCHANGED <<conn_details, display_name, connect_ret, store, exit_code>>
    /\ UNCHANGED_env /\ UNCHANGED_delete /\ UNCHANGED_op

\* lines 145-146, then 200 and 171-172: Enter after a successful connect
AckConnected ==
    /\ pc = "ack_ok"
    /\ connect_ret' = "True"
    /\ pc' = "ops"
    /\ screen' = OpsMenu
    /\ UNCHANGED <<conn_details, display_name, redis_conn, current_env_name,
                   attempt, conn_seq, store, exit_code>>
    /\ UNCHANGED_env /\ UNCHANGED_delete /\ UNCHANGED_op

\* line 145 raising EOFError, caught by line 147: lines 148-149
AckConnectedEof ==
    /\ pc = "ack_ok"
    /\ redis_conn' = ConnAfterFailure(redis_conn)
    /\ screen' = screen \o <<Msg("connect_failed")>>
    /\ pc' = "ack_fail"
    /\ UNCHANGED <<conn_details, display_name, current_env_name, connect_ret,
                   attempt, conn_seq, store, exit_code>>
    /\ UNCHANGED_env /\ UNCHANGED_delete /\ UNCHANGED_op

\* lines 150-151, then run's loop back to _select_environment
AckFailed ==
    /\ pc = "ack_fail"
    /\ connect_ret' = "False"
    /\ pc' = "select"
    /\ screen' = SelectMenu
    /\ UNCHANGED <<conn_details, display_name, redis_conn, current_env_name,
                   attempt, conn_seq, store, exit_code>>
    /\ UNCHANGED_env /\ UNCHANGED_delete /\ UNCHANGED_op

\* KeyboardInterrupt (or EOFError where no handler encloses the input) reaches
\* main: lines 340-342
Interrupt ==
    /\ pc # "terminated"
    /\ pc' = "terminated"
    /\ exit_code' = {0}
    /\ screen' = screen \o <<Msg("interrupted")>>
    /\ UNCHANGED <<conn_details, display_name, store>>
    /\ UNCHANGED_env /\ UNCHANGED_session /\ UNCHANGED_delete /\ UNCHANGED_op

\* lines 173-175: choice '8'
GoBack ==
    /\ pc = "ops"
    /\ pc' = "select"
    /\ screen' = SelectMenu
    /\ UNCHANGED <<conn_details, display_name, store, exit_code>>
    /\ UNCHANGED_env /\ UNCHANGED_session /\ UNCHANGED_delete /\ UNCHANGED_op

\* lines 176-177: choice '9', then main's handler
OpsExit ==
    /\ pc = "ops"
    /\ pc' = "terminated"
    /\ exit_code' = {0}
    /\ screen' = screen \o <<Msg("goodbye")>>
    /\ UNCHANGED <<conn_details, display_name, store>>
    /\ UNCHANGED_env /\ UNCHANGED_session /\ UNCHANGED_delete /\ UNCHANGED_op

\* RedisManager.__init__ and the first _select_environment
InitController ==
    /\ pc = "select"
    /\ conn_details = EmptyDict
    /\ display_name = S_empty
    /\ redis_conn = NoConn
    /\ current_env_name = PyNone
    /\ connect_ret = "None"
    /\ attempt = NoAttempt
    /\ conn_seq = 0
    /\ screen = SelectMenu
    /\ keys_to_delete = <<>>
    /\ deleted_count = 0
    /\ idx = 0
    /\ op = ""
    /\ typed = {}
    /\ calls = <<>>
    /\ exit_code = {}

-----------------------------------------------------------------------------
(* The server's keyspace.  A key <<p, n>> stands for the name p:NNNN, n      *)
(* written with leading zeros to a fixed width, so that the lexicographic   *)
(* order of the names is the order of the pairs, "order" before "user".     *)

chunk_size == 500

KeyRank(k) == IF k[1] = "order" THEN k[2] ELSE MaxOrder + k[2]
KeyOfRank(r) == IF r <= MaxOrder THEN <<"order", r>> ELSE <<"user", r - MaxOrder>>
MaxRank == MaxOrder + MaxUser

UserKeys(lo, hi) == {<<"user", n>> : n \in lo..hi}
StoreOf(keys, v) == [k \in keys |-> v]
KeysOf(seq) == {seq[i] : i \in 1..Len(seq)}
Without(st, keys) == [k \in (DOMAIN st) \ keys |-> st[k]]
Min(a, b) == IF a <= b THEN a ELSE b

S_a == <<"a">>
S_b == <<"b">>
P_all == <<"*">>
P_user == <<"u","s","e","r",":","*">>
P_user_padded == <<" ","u","s","e","r",":","*"," ">>
P_order == <<"o","r","d","e","r",":","*">>
P_temp == <<"t","e","m","p",":","*">>
K_user1 == <<"u","s","e","r",":","0","0","0","1">>
K_user1_padded == <<" ","u","s","e","r",":","0","0","0","1">>
K_order1 == <<"o","r","d","e","r",":","0","0","0","1">>

\* the server's glob match of a key against a pattern
Matches(pattern, k) ==
    CASE pattern = P_all   -> TRUE
      [] pattern = P_user  -> k[1] = "user"
      [] pattern = P_order -> k[1] = "order"
      [] OTHER             -> FALSE

\* the key a name on the wire denotes
ServerKey(name) ==
    CASE name = K_user1  -> <<"user", 1>>
      [] name = K_order1 -> <<"order", 1>>

\* redis_conn.scan_iter(pattern): what the cursor yields, as key -> number of
\* times yielded.  Every matching key is yielded; the keys of revisited are
\* yielded twice (SCAN may return an element more than once).
ScanIter(pattern, revisited) ==
    [k \in {x \in DOMAIN store : Matches(pattern, x)} |->
        IF k \in revisited THEN 2 ELSE 1]

Copies(k, n) == [i \in 1..n |-> k]

\* sorted(list(...)): the yielded keys in ascending order, each as many times
\* as it was yielded.  ranks is the set of ranks still to place in lo..hi.
RECURSIVE SortRange(_, _, _, _)
SortRange(yielded, ranks, lo, hi) ==
    IF ranks = {} THEN <<>>
    ELSE IF lo = hi THEN Copies(KeyOfRank(lo), yielded[KeyOfRank(lo)])
    ELSE LET mid == (lo + hi) \div 2
         IN  SortRange(yielded, {r \in ranks : r <= mid}, lo, mid)
                \o SortRange(yielded, {r \in ranks : r > mid}, mid + 1, hi)

Sorted(yielded) ==
    SortRange(yielded, {KeyRank(k) : k \in DOMAIN yielded}, 1, MaxRank)

-----------------------------------------------------------------------------
(* The operations loop and its handlers.  A handler runs from the menu       *)
(* prompt (pc = "ops") to the "Press Enter to continue..." of line 181       *)
(* (pc = "pause"); _delete_keys_by_pattern also waits at its confirmation    *)
(* (pc = "confirm") and between its delete calls (pc = "deleting").          *)

UNCHANGED_run == UNCHANGED <<conn_details, display_name, exit_code>>

\* a command sent to the server: its name, its arguments (the keys; for SET
\* the key and the value), and the count it returned ({} when it returned
\* none or raised)
Call(cmd, keys, reply) == <<cmd, keys, reply>>

\* lines 181 and 171-172: Enter, then the menu again; the handler's locals are gone
Continue ==
    /\ pc = "pause"
    /\ pc' = "ops"
    /\ screen' = OpsMenu
    /\ keys_to_delete' = <<>> /\ deleted_count' = 0 /\ idx' = 0
    /\ op' = "" /\ typed' = {} /\ calls' = <<>>
    /\ UNCHANGED store
    /\ UNCHANGED_run /\ UNCHANGED_env /\ UNCHANGED_session

\* lines 178-183 with a choice that is no menu entry: message, then the menu again
OpsInvalid ==
    /\ pc = "ops"
    /\ screen' = OpsMenu
    /\ UNCHANGED <<pc, store>>
    /\ UNCHANGED_run /\ UNCHANGED_env /\ UNCHANGED_session /\ UNCHANGED_delete /\ UNCHANGED_op

\* a handler that returns at once because no key or pattern was typed
Cancelled(name, message) ==
    /\ pc' = "pause"
    /\ op' = name /\ typed' = {} /\ calls' = <<>>
    /\ screen' = screen \o <<Msg(message)>>
    /\ UNCHANGED store
    /\ UNCHANGED_run /\ UNCHANGED_env /\ UNCHANGED_session /\ UNCHANGED_delete

\* _find_and_display_keys: what it prints and what it returns
\* outcome "ok": the scan completes; "error": scan_iter raises
FindAndDisplay(pattern, revisited, outcome) ==
    LET keys == Sorted(ScanIter(pattern, revisited))
    IN  IF outcome = "error"
        THEN [keys |-> <<>>, out |-> <<Msg("scan_failed")>>]
        ELSE IF Len(keys) = 0
        THEN [keys |-> <<>>, out |-> <<Msg("scan_complete"), Msg("no_keys_found")>>]
        ELSE [keys |-> keys, out |-> <<Msg("scan_complete"), MsgWith("found", keys)>>]

\* _get_all_keys (lines 203-204)
GetAllKeys(revisited, outcome) ==
    /\ pc = "ops"
    /\ revisited \subseteq DOMAIN store
    /\ pc' = "pause"
    /\ op' = "get_all_keys" /\ typed' = {}
    /\ calls' = <<Call("SCAN", <<>>, {})>>
    /\ screen' = screen \o FindAndDisplay(P_all, revisited, outcome).out
    /\ UNCHANGED store
    /\ UNCHANGED_run /\ UNCHANGED_env /\ UNCHANGED_session /\ UNCHANGED_delete

\* _find_keys_by_pattern (lines 253-258)
FindKeysByPattern(pattern_in, revisited, outcome) ==
    /\ pc = "ops"
    /\ revisited \subseteq DOMAIN store
    /\ LET pattern == Strip(pattern_in)
       IN  IF Len(pattern) = 0
           THEN Cancelled("find_keys_by_pattern", "no_pattern")
           ELSE /\ pc' = "pause"
                /\ op' = "find_keys_by_pattern" /\ typed' = {}
                /\ calls' = <<Call("SCAN", <<>>, {})>>
                /\ screen' = screen \o FindAndDisplay(pattern, revisited, outcome).out
                /\ UNCHANGED store
                /\ UNCHANGED_run /\ UNCHANGED_env /\ UNCHANGED_session /\ UNCHANGED_delete

\* _delete_a_key (lines 206-220); applied: whether the server ran a command
\* whose reply was lost
DeleteAKey(key_in, outcome, applied) ==
    /\ pc = "ops"
    /\ LET key == Strip(key_in)
       IN  IF Len(key) = 0
           THEN Cancelled("delete_a_key", "no_key")
           ELSE /\ pc' = "pause"
                /\ op' = "delete_a_key" /\ typed' = {}
                /\ calls' = <<Call("DEL", <<ServerKey(key)>>,
                                    IF outcome # "ok" THEN {}
                                    ELSE IF ServerKey(key) \in DOMAIN store THEN {1} ELSE {0})>>
                /\ IF outcome = "ok"
                   THEN /\ store' = Without(store, {ServerKey(key)})
                        /\ screen' = screen \o
                              <<IF ServerKey(key) \in DOMAIN store
                                THEN Msg("key_deleted") ELSE Msg("key_not_found")>>
                   ELSE /\ store' = IF applied THEN Without(store, {ServerKey(key)}) ELSE store
                        /\ screen' = screen \o <<Msg("delete_failed")>>
                /\ UNCHANGED_run /\ UNCHANGED_env /\ UNCHANGED_session /\ UNCHANGED_delete

\* GetKeyData without the except clause: the error of the get call leaves the
\* handler, the loop and main, and ends the process with a traceback
GetKeyData_Propagates(key_in, outcome) ==
    /\ pc = "ops"
    /\ LET key == Strip(key_in)
       IN  IF Len(key) = 0
           THEN Cancelled("get_key_data", "no_key") /\ UNCHANGED exit_code
           ELSE /\ op' = "get_key_data" /\ typed' = {}
                /\ calls' = <<Call("GET", <<ServerKey(key)>>, {})>>
                /\ IF outcome # "ok"
                   THEN /\ pc' = "terminated"
                        /\ exit_code' = {1}
                        /\ screen' = screen \o <<Msg("traceback")>>
                   ELSE /\ pc' = "pause"
                        /\ UNCHANGED exit_code
                        /\ screen' = screen \o
                              <<IF ServerKey(key) \in DOMAIN store
                                THEN MsgWith("value", store[ServerKey(key)])
                                ELSE Msg("nil")>>
                /\ UNCHANGED <<store, conn_details, display_name>>
                /\ UNCHANGED_env /\ UNCHANGED_session /\ UNCHANGED_delete

\* _get_key_data (lines 222-237)
GetKeyData(key_in, outcome) ==
    /\ pc = "ops"
    /\ LET key == Strip(key_in)
       IN  IF Len(key) = 0
           THEN Cancelled("get_key_data", "no_key")
           ELSE /\ pc' = "pause"
                /\ op' = "get_key_data" /\ typed' = {}
                /\ calls' = <<Call("GET", <<ServerKey(key)>>, {})>>
                /\ screen' = screen \o
                      <<IF outcome # "ok" THEN Msg("get_failed")
                        ELSE IF ServerKey(key) \in DOMAIN store
                        THEN MsgWith("value", store[ServerKey(key)])
                        ELSE Msg("nil")>>
                /\ UNCHANGED store
                /\ UNCHANGED_run /\ UNCHANGED_env /\ UNCHANGED_session /\ UNCHANGED_delete

\* SetKeyData sending the key with a value of its own instead of the typed one
SetKeyData_DropsValue(key_in, value, outcome, applied) ==
    /\ pc = "ops"
    /\ LET key == Strip(key_in)
           written == [k \in (DOMAIN store) \cup {ServerKey(key)} |->
                          IF k = ServerKey(key) THEN S_a ELSE store[k]]
       IN  IF Len(key) = 0
           THEN Cancelled("set_key_data", "no_key")
           ELSE /\ pc' = "pause"
                /\ op' = "set_key_data" /\ typed' = {}
                /\ calls' = <<Call("SET", <<ServerKey(key), value>>, {})>>
                /\ IF outcome = "ok"
                   THEN store' = written /\ screen' = screen \o <<Msg("key_set")>>
                   ELSE /\ store' = IF applied THEN written ELSE store
                        /\ screen' = screen \o <<Msg("set_failed")>>
                /\ UNCHANGED_run /\ UNCHANGED_env /\ UNCHANGED_session /\ UNCHANGED_delete

\* _set_key_data (lines 239-251)
SetKeyData(key_in, value, outcome, applied) ==
    /\ pc = "ops"
    /\ LET key == Strip(key_in)
           written == [k \in (DOMAIN store) \cup {ServerKey(key)} |->
                          IF k = ServerKey(key) THEN value ELSE store[k]]
       IN  IF Len(key) = 0
           THEN Cancelled("set_key_data", "no_key")
           ELSE /\ pc' = "pause"
                /\ op' = "set_key_data" /\ typed' = {}
                /\ calls' = <<Call("SET", <<ServerKey(key), value>>, {})>>
                /\ IF outcome = "ok"
                   THEN store' = written /\ screen' = screen \o <<Msg("key_set")>>
                   ELSE /\ store' = IF applied THEN written ELSE store
                        /\ screen' = screen \o <<Msg("set_failed")>>
                /\ UNCHANGED_run /\ UNCHANGED_env /\ UNCHANGED_session /\ UNCHANGED_delete

\* _delete_keys_by_pattern, lines 280-293: the pattern, the scan, and the
\* confirmation prompt when the scan found keys
DeleteKeysByPattern(pattern_in, revisited, outcome) ==
    /\ pc = "ops"
    /\ revisited \subseteq DOMAIN store
    /\ LET pattern == Strip(pattern_in)
           found == FindAndDisplay(pattern, revisited, outcome)
       IN  IF Len(pattern) = 0
           THEN Cancelled("delete_keys_by_pattern", "no_pattern")
           ELSE /\ op' = "delete_keys_by_pattern" /\ typed' = {}
                /\ calls' = <<Call("SCAN", <<>>, {})>>
                /\ keys_to_delete' = found.keys
                /\ IF Len(found.keys) = 0
                   THEN pc' = "pause" /\ screen' = screen \o found.out
                   ELSE pc' = "confirm" /\ screen' = screen \o found.out \o <<Msg("danger_zone")>>
                /\ UNCHANGED <<store, deleted_count, idx>>
                /\ UNCHANGED_run /\ UNCHANGED_env /\ UNCHANGED_session

\* line 294, negated: the confirmation matches
DeleteConfirmed(confirm) == confirm = S_DELETE

\* lines 293-302: the typed confirmation
ConfirmDelete(confirm) ==
    /\ pc = "confirm"
    /\ typed' = {confirm}
    /\ IF ~DeleteConfirmed(confirm)
       THEN pc' = "pause" /\ screen' = screen \o <<Msg("confirmation_mismatch")>>
       ELSE pc' = "deleting" /\ UNCHANGED screen
    /\ deleted_count' = 0
    /\ idx' = 0
    /\ UNCHANGED <<store, keys_to_delete, op, calls>>
    /\ UNCHANGED_run /\ UNCHANGED_env /\ UNCHANGED_session

\* Chunk with the slice one key short
Chunk_OneShort(keys, i) == SubSeq(keys, i + 1, Min(i + chunk_size - 1, Len(keys)))

\* line 304: keys_to_delete[i:i + chunk_size]
Chunk(keys, i) == SubSeq(keys, i + 1, Min(i + chunk_size, Len(keys)))

\* the loop going on to the next chunk after a failed delete call
DeleteChunk_SkipsAhead(outcome, applied) ==
    /\ pc = "deleting"
    /\ LET chunk == Chunk(keys_to_delete, idx)
           removed == KeysOf(chunk) \cap DOMAIN store
       IN  /\ calls' = Append(calls, Call("DEL", chunk,
                                IF outcome = "ok" THEN {Cardinality(removed)} ELSE {}))
           /\ IF outcome = "ok"
              THEN /\ store' = Without(store, KeysOf(chunk))
                   /\ deleted_count' = deleted_count + Cardinality(removed)
                   /\ idx' = idx + chunk_size
                   /\ IF idx + chunk_size < Len(keys_to_delete)
                      THEN pc' = "deleting" /\ UNCHANGED screen
                      ELSE /\ pc' = "pause"
                           /\ screen' = screen \o
                                <<MsgWith("deleted", deleted_count + Cardinality(removed))>>
              ELSE /\ store' = IF applied THEN Without(store, KeysOf(chunk)) ELSE store
                   /\ idx' = idx + chunk_size
                   /\ pc' = IF idx + chunk_size < Len(keys_to_delete) THEN "deleting" ELSE "pause"
                   /\ screen' = screen \o <<Msg("deletion_failed")>>
                   /\ UNCHANGED deleted_count
    /\ UNCHANGED <<keys_to_delete, op, typed>>
    /\ UNCHANGED_run /\ UNCHANGED_env /\ UNCHANGED_session

\* the loop deleting what a fresh scan for user:* finds at the time of the
\* delete call, instead of a chunk of the confirmed list
DeleteChunk_Rescans(outcome, applied) ==
    /\ pc = "deleting"
    /\ LET chunk == Chunk(Sorted(ScanIter(P_user, {})), idx)
           removed == KeysOf(chunk) \cap DOMAIN store
       IN  /\ calls' = Append(calls, Call("DEL", chunk,
                                IF outcome = "ok" THEN {Cardinality(removed)} ELSE {}))
           /\ IF outcome = "ok"
              THEN /\ store' = Without(store, KeysOf(chunk))
                   /\ deleted_count' = deleted_count + Cardinality(removed)
                   /\ idx' = idx + chunk_size
                   /\ IF idx + chunk_size < Len(keys_to_delete)
                      THEN pc' = "deleting" /\ UNCHANGED screen
                      ELSE /\ pc' = "pause"
                           /\ screen' = screen \o
                                <<MsgWith("deleted", deleted_count + Cardinality(removed))>>
              ELSE /\ store' = IF applied THEN Without(store, KeysOf(chunk)) ELSE store
                   /\ pc' = "pause"
                   /\ screen' = screen \o <<Msg("deletion_failed")>>
                   /\ UNCHANGED <<deleted_count, idx>>
    /\ UNCHANGED <<keys_to_delete, op, typed>>
    /\ UNCHANGED_run /\ UNCHANGED_env /\ UNCHANGED_session

\* lines 303-308: one iteration of the loop: the delete call on the chunk at
\* idx; after the last chunk the success message, on an error the failure
\* message.
DeleteChunk(outcome, applied) ==
    /\ pc = "deleting"
    /\ LET chunk == Chunk(keys_to_delete, idx)
           removed == KeysOf(chunk) \cap DOMAIN store
       IN  /\ calls' = Append(calls, Call("DEL", chunk,
                                IF outcome = "ok" THEN {Cardinality(removed)} ELSE {}))
           /\ IF outcome = "ok"
              THEN /\ store' = Without(store, KeysOf(chunk))
                   /\ deleted_count' = deleted_count + Cardinality(removed)
                   /\ idx' = idx + chunk_size
                   /\ IF idx + chunk_size < Len(keys_to_delete)
                      THEN pc' = "deleting" /\ UNCHANGED screen
                      ELSE /\ pc' = "pause"
                           /\ screen' = screen \o
                                <<MsgWith("deleted", deleted_count + Cardinality(removed))>>
              ELSE /\ store' = IF applied THEN Without(store, KeysOf(chunk)) ELSE store
                   /\ pc' = "pause"
                   /\ screen' = screen \o <<Msg("deletion_failed")>>
                   /\ UNCHANGED <<deleted_count, idx>>
    /\ UNCHANGED <<keys_to_delete, op, typed>>
    /\ UNCHANGED_run /\ UNCHANGED_env /\ UNCHANGED_session

\* the flush confirmation compared without regard to case
FlushConfirmed_IgnoreCase(confirm) ==
    current_env_name[1] = "str" /\ Lower(confirm) = Lower(current_env_name[2])

\* line 312, negated: the confirmation matches
FlushConfirmed(confirm) == PyStrV(confirm) = current_env_name

\* FlushAllKeys with the session dropped when flushdb raises
FlushAllKeys_TearsDown(confirm, outcome, applied) ==
    /\ pc = "ops"
    /\ pc' = "pause"
    /\ op' = "flush_all_keys"
    /\ typed' = {confirm}
    /\ IF ~FlushConfirmed(confirm)
       THEN /\ screen' = screen \o <<Msg("confirmation_mismatch")>>
            /\ calls' = <<>>
            /\ UNCHANGED <<store, redis_conn>>
       ELSE /\ calls' = <<Call("FLUSHDB", <<>>, {})>>
            /\ IF outcome = "ok"
               THEN store' = <<>> /\ screen' = screen \o <<Msg("flushed")>> /\ UNCHANGED redis_conn
               ELSE /\ store' = IF applied THEN <<>> ELSE store
                    /\ screen' = screen \o <<Msg("flush_failed")>>
                    /\ redis_conn' = NoConn
    /\ UNCHANGED <<current_env_name, connect_ret, attempt, conn_seq>>
    /\ UNCHANGED_run /\ UNCHANGED_env /\ UNCHANGED_delete

\* _flush_all_keys (lines 310-321)
FlushAllKeys(confirm, outcome, applied) ==
    /\ pc = "ops"
    /\ pc' = "pause"
    /\ op' = "flush_all_keys"
    /\ typed' = {confirm}
    /\ IF ~FlushConfirmed(confirm)
       THEN /\ screen' = screen \o <<Msg("confirmation_mismatch")>>
            /\ calls' = <<>>
            /\ UNCHANGED store
       ELSE /\ calls' = <<Call("FLUSHDB", <<>>, {})>>
            /\ IF outcome = "ok"
               THEN store' = <<>> /\ screen' = screen \o <<Msg("flushed")>>
               ELSE /\ store' = IF applied THEN <<>> ELSE store
                    /\ screen' = screen \o <<Msg("flush_failed")>>
    /\ UNCHANGED_run /\ UNCHANGED_env /\ UNCHANGED_session /\ UNCHANGED_delete

\* another client of the same server sets or deletes a key
OtherClientSets(k, v) ==
    /\ pc # "terminated"
    /\ store' = [x \in (DOMAIN store) \cup {k} |-> IF x = k THEN v ELSE store[x]]
    /\ UNCHANGED <<pc, screen>>
    /\ UNCHANGED_run /\ UNCHANGED_env /\ UNCHANGED_session /\ UNCHANGED_delete /\ UNCHANGED_op

OtherClientDeletes(k) ==
    /\ pc # "terminated"
    /\ k \in DOMAIN store
    /\ store' = Without(store, {k})
    /\ UNCHANGED <<pc, screen>>
    /\ UNCHANGED_run /\ UNCHANGED_env /\ UNCHANGED_session /\ UNCHANGED_delete /\ UNCHANGED_op

-----------------------------------------------------------------------------
(* SpecConnect: the first selection and connect attempt of a run, for every *)
(* connection record the config file or the prompt can produce             *)

\* a config-file record: every value is a string
ConfigRecord(tls, verify, ca, legacy) ==
    LET base == Put(Put(EmptyDict, "host", PyStrV(S_host)), "port", PyStrV(S_6379))
        d1 == IF tls = {} THEN base ELSE Put(base, "tls", PyStrV(CHOOSE x \in tls : TRUE))
        d2 == IF verify = {} THEN d1 ELSE Put(d1, "tls_verify", PyStrV(CHOOSE x \in verify : TRUE))
        d3 == IF ca = {} THEN d2 ELSE Put(d2, "tls_ca_certs_path", PyStrV(CHOOSE x \in ca : TRUE))
    IN  IF legacy = {} THEN d3 ELSE Put(d3, "legacymode", PyStrV(CHOOSE x \in legacy : TRUE))

Optional(S) == {{}} \cup {{x} : x \in S}

TlsValues == {S_True, S_1, S_false, S_on}
VerifyValues == {S_TRUE, S_false, S_0, S_off}
CaValues == {S_empty, S_ca_here, S_ca_gone}

ConfigRecords ==
    {ConfigRecord(t, v, c, {}) : t \in Optional(TlsValues), v \in Optional(VerifyValues),
                                 c \in Optional(CaValues)}

\* config-file records without a host: a section with "host =" and a section
\* with no host line at all
HostlessRecords ==
    { Put(ConfigRecord({S_true}, {}, {}, {}), "host", PyStrV(S_empty)),
      Pop(ConfigRecord({S_true}, {}, {}, {}), {"host"}) }

InitConnect ==
    /\ InitController
    /\ env_keys = <<S_dev>>
    /\ \E r \in ConfigRecords \cup HostlessRecords : config = [n \in {S_dev} |-> r]
    /\ files = {S_ca_here}
    /\ store = <<>>

\* what the user may type at the prompts of _prompt_for_custom_details
HostInputs == {S_host_padded, S_blank}
PortInputs == {S_empty, S_6379, S_port_bad}
DbInputs == {S_empty, S_x}
TlsInputs == {S_empty, S_Y, S_N_padded, S_x}
VerifyInputs == {S_empty, S_NO, S_x}
CaInputs == {S_empty, S_ca_here, S_ca_gone}
ConnectOutcomes == {"ok", "ping_error", "ctor_error"}

\* The prompt on the answers of a set of sessions: complete sessions with
\* well-formed host, port and db; sessions that end at a malformed host, port
\* or db; sessions the user interrupts at the first or at the last question.
CustomSessions(choice) ==
    \/ \E t \in TlsInputs, v \in VerifyInputs, a \in CaInputs :
         \/ SelectCustom(choice, S_host_padded, S_empty, S_empty, S_empty, t, v, a, S_empty, "no")
         \/ SelectCustom(choice, S_host_padded, S_6379, S_empty, S_pw, t, v, a, S_y, "no")
    \/ \E h \in HostInputs, p \in PortInputs, d \in DbInputs :
            /\ h = S_blank \/ p = S_port_bad \/ d = S_x
            /\ SelectCustom(choice, h, p, d, S_empty, S_empty, S_empty, S_empty, S_empty, "no")
    \/ \E t \in TlsInputs, v \in VerifyInputs, x \in {"host", "legacy"} :
            SelectCustom(choice, S_host_padded, S_empty, S_empty, S_empty, t, v, S_empty, S_empty, x)

NextConnect ==
    \/ \E c \in ChoiceInputs : SelectInvalid(c)
    \/ \E c \in ChoiceInputs : SelectExit(c)
    \/ \E c \in ChoiceInputs : SelectConfigured(c)
    \/ \E c \in ChoiceInputs : pc = "select" /\ IntParses(c) /\ CustomSessions(c)
    \/ \E o \in ConnectOutcomes : Connect(o)
    \/ AckConnected
    \/ AckConnectedEof
    \/ Interrupt

SpecConnect == InitConnect /\ [][NextConnect]_vars

-----------------------------------------------------------------------------
(* Spec: the whole controller on a small configuration and a small keyspace *)

\* [dev] host = h1, port = 6379, tls = true
DevRecord == ConfigRecord({S_true}, {}, {}, {})
\* [custom] host = h1, port = 6379
PlainRecord == ConfigRecord({}, {}, {}, {})

Configs ==
    { [keys |-> <<S_dev>>, config |-> [n \in {S_dev} |-> DevRecord]],
      [keys |-> <<S_dev, S_custom>>,
       config |-> [n \in {S_dev, S_custom} |-> IF n = S_dev THEN DevRecord ELSE PlainRecord]] }

SmallStore == StoreOf({<<"order", 1>>, <<"user", 1>>, <<"user", 2>>}, S_a)

Init ==
    /\ InitController
    /\ \E c \in Configs : env_keys = c.keys /\ config = c.config
    /\ files = {S_ca_here}
    /\ store \in {<<>>, SmallStore}

Outcomes == {"ok", "error"}
KeyInputs == {S_empty, K_user1_padded, K_order1}
ValueInputs == {S_a, S_b}
PatternInputs == {S_blank, P_user_padded, P_all, P_temp}
DupKeys == {<<"user", 1>>}
DeleteConfirmInputs == {S_DELETE, S_delete, S_DELETE_padded, S_empty}
\* what the user may type at the flush confirmation: the name, the name in
\* lower case, the name followed by a blank, and the word DELETE
FlushConfirmInputs ==
    LET name == PyStr(current_env_name)
    IN  {name, Lower(name), name \o <<" ">>, S_DELETE}
OtherKeys == {<<"user", 3>>}

\* the prompt on a few sessions: TLS without verification, a blank host, an
\* interrupt at the last question
CustomSessionsFew(choice) ==
    \/ SelectCustom(choice, S_host_padded, S_empty, S_empty, S_empty, S_empty, S_NO, S_empty, S_empty, "no")
    \/ SelectCustom(choice, S_blank, S_empty, S_empty, S_empty, S_empty, S_empty, S_empty, S_empty, "no")
    \/ SelectCustom(choice, S_host_padded, S_empty, S_empty, S_empty, S_empty, S_NO, S_empty, S_empty, "legacy")

Next ==
    \/ \E c \in ChoiceInputs : SelectInvalid(c)
    \/ \E c \in ChoiceInputs : SelectExit(c)
    \/ \E c \in ChoiceInputs : SelectConfigured(c)
    \/ \E c \in ChoiceInputs : pc = "select" /\ IntParses(c) /\ CustomSessionsFew(c)
    \/ \E o \in ConnectOutcomes : Connect(o)
    \/ AckConnected
    \/ AckConnectedEof
    \/ AckFailed
    \/ Interrupt
    \/ GoBack
    \/ OpsExit
    \/ OpsInvalid
    \/ Continue
    \/ \E r \in SUBSET DupKeys, o \in Outcomes : GetAllKeys(r, o)
    \/ \E k \in KeyInputs, o \in Outcomes, a \in BOOLEAN : DeleteAKey(k, o, a)
    \/ \E k \in KeyInputs, o \in Outcomes : GetKeyData(k, o)
    \/ \E k \in KeyInputs, v \in ValueInputs, o \in Outcomes, a \in BOOLEAN : SetKeyData(k, v, o, a)
    \/ \E p \in PatternInputs, r \in SUBSET DupKeys, o \in Outcomes : FindKeysByPattern(p, r, o)
    \/ \E p \in PatternInputs, r \in SUBSET DupKeys, o \in Outcomes : DeleteKeysByPattern(p, r, o)
    \/ \E t \in DeleteConfirmInputs : ConfirmDelete(t)
    \/ \E o \in Outcomes, a \in BOOLEAN : DeleteChunk(o, a)
    \/ \E o \in Outcomes, a \in BOOLEAN : pc = "ops" /\ \E t \in FlushConfirmInputs : FlushAllKeys(t, o, a)
    \/ \E k \in OtherKeys : OtherClientSets(k, S_b)
    \/ \E k \in OtherKeys : OtherClientDeletes(k)

Spec == Init /\ [][Next]_vars

-----------------------------------------------------------------------------
(* SpecBulk: pattern deletes over key lists of one, two and three chunks    *)

BulkStore(n) == StoreOf({<<"order", 1>>} \cup UserKeys(1, n), S_a)
BulkSizes == {chunk_size, chunk_size + 1, 2 * chunk_size, MaxUser}

InitBulk ==
    /\ InitController
    /\ env_keys = <<S_dev>>
    /\ config = [n \in {S_dev} |-> DevRecord]
    /\ files = {S_ca_here}
    /\ \E n \in BulkSizes : store = BulkStore(n)

BulkPatternInputs == {P_user, P_all}
BulkOtherKeys == {<<"user", 2>>}

NextBulk ==
    \/ SelectConfigured(S_1)
    \/ Connect("ok")
    \/ AckConnected
    \/ Continue
    \/ \E p \in BulkPatternInputs, r \in SUBSET DupKeys, o \in Outcomes : DeleteKeysByPattern(p, r, o)
    \/ \E t \in {S_DELETE, S_delete} : ConfirmDelete(t)
    \/ \E o \in Outcomes, a \in BOOLEAN : DeleteChunk(o, a)
    \/ \E k \in BulkOtherKeys : OtherClientDeletes(k)

SpecBulk == InitBulk /\ [][NextBulk]_vars

-----------------------------------------------------------------------------
(* The claims about the TLS options, under SpecConnect *)

\* The values of a record field that say yes, and that say no, to a reader
SaysYes == {PyBool(TRUE)} \cup {PyStrV(w) : w \in {S_true, S_True, S_TRUE, S_1, S_y, S_Y, S_yes, S_Yes}}
SaysNo == {PyBool(FALSE)} \cup {PyStrV(w) : w \in {S_false, S_False, S_0, S_n, S_no, S_NO, S_off}}

TlsOn(d) == "tls" \in DOMAIN d /\ d["tls"] \in SaysYes
TlsOff(d) == "tls" \in DOMAIN d /\ d["tls"] \in SaysNo
VerifyOff(d) == "tls_verify" \in DOMAIN d /\ d["tls_verify"] \in SaysNo
VerifyOn(d) == "tls_verify" \notin DOMAIN d \/ d["tls_verify"] \in SaysYes

\* the connection was made over TLS with certificate verification turned off
Unverified(opts) ==
    /\ opts["ssl"] = PyBool(TRUE)
    /\ "ssl_cert_reqs" \in DOMAIN opts
    /\ opts["ssl_cert_reqs"] = PyNone

WarnedAt(scr) == \E i \in 1..Len(scr) : scr[i][1] = "tls_verify_warning"

\* C1: whenever a client is constructed with TLS on and verification off, the
\* record said no to tls_verify explicitly and the security warning was on the
\* screen when the client was constructed.
C1_NeverSilentlyUnverified ==
    attempt.made /\ Unverified(attempt.opts)
        => VerifyOff(attempt.details) /\ WarnedAt(attempt.screen)

\* C2: a record with TLS on and tls_verify off gives a TLS client with
\* ssl_cert_reqs None and no ssl_ca_certs, whatever tls_ca_certs_path is.
C2_VerifyOffIgnoresCustomCa ==
    attempt.made /\ TlsOn(attempt.details) /\ VerifyOff(attempt.details)
        => /\ Unverified(attempt.opts)
           /\ "ssl_ca_certs" \notin DOMAIN attempt.opts

C2_Witness ==
    /\ attempt.made /\ TlsOn(attempt.details) /\ VerifyOff(attempt.details)
    /\ "tls_ca_certs_path" \in DOMAIN attempt.details
    /\ PyStr(attempt.details["tls_ca_certs_path"]) \in files

\* C3: a record with tls off gives a client with ssl False, no ssl_cert_reqs
\* and no ssl_ca_certs, whatever tls_verify and tls_ca_certs_path are.
C3_TlsOffNoTlsOptions ==
    attempt.made /\ TlsOff(attempt.details)
        => /\ attempt.opts["ssl"] = PyBool(FALSE)
           /\ "ssl_cert_reqs" \notin DOMAIN attempt.opts
           /\ "ssl_ca_certs" \notin DOMAIN attempt.opts

C3_Witness ==
    /\ attempt.made /\ TlsOff(attempt.details)
    /\ "tls_verify" \in DOMAIN attempt.details
    /\ "tls_ca_certs_path" \in DOMAIN attempt.details
    /\ PyStr(attempt.details["tls_ca_certs_path"]) \in files

\* C4: with TLS on and verification on, ssl_ca_certs is the custom path exactly
\* when it is set and the file exists, and certifi's bundle otherwise; and the
\* connect step always gets as far as constructing the client.
C4_CaBundleResolution ==
    /\ attempt.made /\ TlsOn(attempt.details) /\ VerifyOn(attempt.details)
        => /\ "ssl_cert_reqs" \notin DOMAIN attempt.opts
           /\ "ssl_ca_certs" \in DOMAIN attempt.opts
           /\ attempt.opts["ssl_ca_certs"] =
                IF /\ "tls_ca_certs_path" \in DOMAIN attempt.details
                   /\ PyStr(attempt.details["tls_ca_certs_path"]) \in files
                THEN attempt.details["tls_ca_certs_path"]
                ELSE PyStrV(S_certifi)
    /\ pc \in {"ack_ok", "ack_fail", "ops"} => attempt.made /\ attempt.details = conn_details

C4_Witness ==
    /\ pc = "ops"
    /\ attempt.made /\ TlsOn(attempt.details) /\ VerifyOn(attempt.details)
    /\ "tls_ca_certs_path" \in DOMAIN attempt.details
    /\ attempt.details["tls_ca_certs_path"] = PyStrV(S_ca_gone)
    /\ attempt.opts["ssl_ca_certs"] = PyStrV(S_certifi)

-----------------------------------------------------------------------------
(* The claims about the chunked pattern delete, under SpecBulk *)

IsDel(c) == c[1] = "DEL"
DelCalls == SelectSeq(calls, IsDel)

RECURSIVE SumReplies(_)
SumReplies(d) ==
    IF Len(d) = 0 THEN 0
    ELSE (IF d[1][3] = {} THEN 0 ELSE CHOOSE x \in d[1][3] : TRUE) + SumReplies(Tail(d))

PatternDeleteOver == pc = "pause" /\ op = "delete_keys_by_pattern"
DeletionSucceeded == PatternDeleteOver /\ OnScreen("deleted")
DeletionFailed == PatternDeleteOver /\ OnScreen("deletion_failed")

\* C5: a confirmed pattern delete whose delete calls all succeed has issued
\* ceil(n / 500) delete calls, the j-th on the keys (j-1)*500+1 .. min(j*500, n)
\* of the list in list order, and reports the sum of the counts they returned.
C5_ChunkedDelete ==
    DeletionSucceeded =>
        LET d == DelCalls
            n == Len(keys_to_delete)
            m == Len(DelCalls)
        IN  /\ m = (n + chunk_size - 1) \div chunk_size
            /\ \A j \in 1..m :
                 /\ d[j][3] # {}
                 /\ Len(d[j][2]) = (IF j < m THEN chunk_size ELSE n - (m - 1) * chunk_size)
                 /\ Len(d[j][2]) >= 1 /\ Len(d[j][2]) <= chunk_size
                 /\ \A i \in 1..Len(d[j][2]) :
                        d[j][2][i] = keys_to_delete[(j - 1) * chunk_size + i]
            /\ \E i \in 1..Len(screen) : screen[i] = MsgWith("deleted", SumReplies(d))

\* 1200 keys: calls of 500, 500 and 200 keys, and "deleted 1200"
C5_Witness ==
    /\ DeletionSucceeded
    /\ Len(keys_to_delete) = 1200
    /\ Len(DelCalls) = 3
    /\ Len(DelCalls[1][2]) = 500 /\ Len(DelCalls[2][2]) = 500 /\ Len(DelCalls[3][2]) = 200
    /\ \E i \in 1..Len(screen) : screen[i] = MsgWith("deleted", 1200)

\* C6: when a chunk's delete call fails, what the operation reports carries
\* the failure together with the count accumulated from the earlier chunks.
C6_FailureCarriesCount ==
    DeletionFailed =>
        \E i \in 1..Len(screen) :
            /\ screen[i][1] \in {"deletion_failed", "deleted"}
            /\ screen[i][2] = {deleted_count}

\* C7: when the delete call for chunk k fails, chunks 1..k are the only ones a
\* delete call was issued for, each call before the k-th succeeded, the keys of
\* chunks 1..k-1 are gone and the keys of the chunks after k are still there;
\* and the loop never runs on after a failed call.
C7_StopsAtFailedChunk ==
    /\ pc = "deleting" => \A j \in 1..Len(DelCalls) : DelCalls[j][3] # {}
    /\ DeletionFailed =>
        LET d == DelCalls
            k == Len(DelCalls)
            n == Len(keys_to_delete)
        IN  /\ k >= 1
            /\ d[k][3] = {}
            /\ \A j \in 1..(k - 1) : d[j][3] # {}
            /\ \A j \in 1..k :
                 d[j][2] = SubSeq(keys_to_delete, (j - 1) * chunk_size + 1, Min(j * chunk_size, n))
            /\ \A i \in 1..Min((k - 1) * chunk_size, n) : keys_to_delete[i] \notin DOMAIN store
            /\ \A i \in (k * chunk_size + 1)..n : keys_to_delete[i] \in DOMAIN store

\* the second of three chunks failed
C7_Witness ==
    /\ DeletionFailed
    /\ Len(DelCalls) = 2
    /\ Len(keys_to_delete) > 2 * chunk_size
    /\ deleted_count = chunk_size

-----------------------------------------------------------------------------
(* The claims about the scan, the confirmations and the connect, under Spec *)

StrictlyAscending(keys) ==
    \A i \in 1..(Len(keys) - 1) : KeyRank(keys[i]) < KeyRank(keys[i + 1])

\* C8: the list _find_and_display_keys displays and returns holds each yielded
\* key once, in ascending order.
C8_ScanDeduplicatedSorted ==
    /\ pc = "confirm" => StrictlyAscending(keys_to_delete)
    /\ \A i \in 1..Len(screen) :
         screen[i][1] = "found" => \A l \in screen[i][2] : StrictlyAscending(l)

IsMutating(c) == c[1] \in {"DEL", "SET", "FLUSHDB"}

SessionKept ==
    /\ redis_conn' = redis_conn
    /\ current_env_name' = current_env_name
    /\ connect_ret' = connect_ret

\* C9: a pattern delete whose confirmation is not exactly DELETE, and a flush
\* whose confirmation is not exactly the display name of the connection, send
\* no command and leave the keyspace and the session as they were; delete
\* calls and FLUSHDB are only sent after the exact confirmation.
C9_Step ==
    /\ (pc = "confirm" /\ pc' \in {"pause", "deleting"} /\ typed' # {S_DELETE})
          => pc' = "pause" /\ store' = store /\ calls' = calls /\ SessionKept
    /\ (pc = "ops" /\ op' = "flush_all_keys" /\ typed' # {display_name})
          => pc' = "pause" /\ store' = store /\ calls' = <<>> /\ SessionKept
    /\ (op' = "delete_keys_by_pattern" /\ \E i \in 1..Len(calls') : IsMutating(calls'[i]))
          => typed' = {S_DELETE}
    /\ (op' = "flush_all_keys" /\ \E i \in 1..Len(calls') : IsMutating(calls'[i]))
          => typed' = {display_name}

C9_ExactConfirmation == [][C9_Step]_vars

\* a flush refused on the display name typed in lower case
C9_Witness ==
    /\ pc = "pause" /\ op = "flush_all_keys"
    /\ typed = {Lower(display_name)}
    /\ typed # {display_name}
    /\ calls = <<>>
    /\ DOMAIN store # {}

FailureShown(scr) == \E i \in 1..Len(scr) : scr[i][1] = "connect_failed"

\* C10: a failed connect leaves redis_conn None, also after an earlier
\* session; _connect then returns False and the controller is back at the
\* environment selection (or the user ends the process at the prompt of
\* line 150); the operations loop is entered only from a successful connect.
C10_Step ==
    /\ (pc \in {"connecting", "ack_ok"} /\ FailureShown(screen') /\ pc' # "terminated")
          => pc' = "ack_fail" /\ redis_conn' = NoConn
    /\ pc = "ack_fail"
          => /\ redis_conn = NoConn /\ redis_conn' = NoConn
             /\ pc' \in {"ack_fail", "select", "terminated"}
             /\ pc' = "select" => connect_ret' = "False"
    /\ (pc # "ops" /\ pc' = "ops") => pc \in {"ack_ok", "pause"} /\ redis_conn # NoConn

C10_FailedConnect == [][C10_Step]_vars

\* back at the selection after a failed connect that followed a session
C10_Witness ==
    /\ pc = "select"
    /\ connect_ret = "False"
    /\ redis_conn = NoConn
    /\ conn_seq = 2
    /\ current_env_name # PyNone

-----------------------------------------------------------------------------
(* The claims about the session and the controller, under Spec *)

\* C11: whenever the controller is at the environment selection, after 'Go
\* back' as after anything else, self.redis_conn holds no client.
C11_NoSessionAtSelection == pc = "select" => redis_conn = NoConn

\* the messages a handler prints when a command raised
OpFailures == {"scan_failed", "delete_failed", "get_failed", "set_failed",
               "deletion_failed", "flush_failed"}

\* the step printed m as its last message
Printed(m) ==
    /\ Len(screen') > Len(screen)
    /\ screen'[Len(screen')][1] \in m

\* C12: a step in which a get, set, delete, scan, pattern-delete or flush call
\* fails prints the failure, leaves redis_conn (a client) and current_env_name
\* as they were, and ends at the "Press Enter to continue..." of the operations
\* loop; from there the only way on, short of ending the process, is back to
\* the operations menu on the same session.
C12_Step ==
    /\ Printed(OpFailures)
          => /\ pc \in {"ops", "deleting"}
             /\ calls' # <<>>
             /\ redis_conn # NoConn
             /\ SessionKept
             /\ pc' = "pause"
    /\ (pc = "pause" /\ pc' \notin {"pause", "terminated"})
          => pc' = "ops" /\ redis_conn # NoConn /\ SessionKept

C12_OperationErrorKeepsSession == [][C12_Step]_vars

\* after a flush that raised: still in the session, at the prompt of line 181
C12_Witness ==
    /\ pc = "pause" /\ op = "flush_all_keys"
    /\ OnScreen("flush_failed")
    /\ redis_conn # NoConn
    /\ current_env_name = PyStrV(display_name)

-----------------------------------------------------------------------------
(* The claims about the connection inputs, under SpecConnect *)

\* the record names a host
HasHost(d) == "host" \in DOMAIN d /\ Len(Strip(PyStr(d["host"]))) > 0

\* C13: no client is ever constructed (no connection attempted) for a record
\* whose host is empty or missing, whether the record comes from the prompt or
\* from the config file.
C13_EmptyHostNoConnect == attempt.made => HasHost(attempt.details)

\* the options of a TLS connection, and of one with verification on
UsesTls(opts) == opts["ssl"] = PyBool(TRUE)
Verifies(opts) == "ssl_cert_reqs" \notin DOMAIN opts /\ "ssl_ca_certs" \in DOMAIN opts

\* C14: a connection input that leaves tls unspecified gives a TLS connection,
\* with verification on when it leaves tls_verify unspecified too: for the
\* record the prompt builds from an empty answer to "Enable TLS?", and for a
\* config-file record with no tls key that a client is constructed from.
C14_TlsByDefault ==
    /\ \A t \in {S_empty, S_blank}, v \in VerifyInputs :
         LET r == PromptForCustomDetails(S_host, S_empty, S_empty, S_empty,
                                         t, v, S_empty, S_empty, "no")
         IN  /\ r.ok
             /\ UsesTls(FinalConnDetails(r.details))
             /\ Len(Strip(v)) = 0 => Verifies(FinalConnDetails(r.details))
    /\ (attempt.made /\ "tls" \notin DOMAIN attempt.details)
          => /\ UsesTls(attempt.opts)
             /\ "tls_verify" \notin DOMAIN attempt.details => Verifies(attempt.opts)

-----------------------------------------------------------------------------
(* The claims about errors, the round trip and the session, under Spec *)

\* C15: a step that reports a failed connect or a failed command leaves the
\* controller running, at the prompt that follows the message; the process
\* ends only by the Exit entry of a menu or by an interrupt or end of input,
\* its exit status is then 0, and it has no exit status before.
C15_Step ==
    /\ Printed({"connect_failed"} \cup OpFailures)
          => pc' \in {"ack_fail", "pause"} /\ exit_code' = {}
    /\ (pc # "terminated" /\ pc' = "terminated")
          => exit_code' = {0} /\ Printed({"goodbye", "interrupted"})
    /\ pc' # "terminated" => exit_code' = {}
    /\ pc = "terminated" => pc' = "terminated" /\ exit_code' = exit_code

C15_NoErrorPastController == [][C15_Step]_vars

\* a get that raised was reported, and the process ended later, by an
\* interrupt, with status 0
C15_Witness ==
    /\ pc = "terminated" /\ exit_code = {0}
    /\ OnScreen("get_failed")
    /\ OnScreen("interrupted")

\* the keys a command names
Named(c) == IF c[1] = "SET" THEN {c[2][1]} ELSE KeysOf(c[2])

\* the step sent a command; Sent is that command
Sends == Len(calls') > 0 /\ calls' # calls
Sent == calls'[Len(calls')]

\* k is bound in st2 as it is in st1
SameBinding(st1, st2, k) ==
    /\ k \in DOMAIN st1 <=> k \in DOMAIN st2
    /\ k \in DOMAIN st1 => st2[k] = st1[k]

\* C16: the round trip through the store, step by step.  A set of k to v that
\* reports success leaves k bound to v; a delete of k that reports success or
\* "not found" leaves k unbound; a get of k shows the value k is bound to, or
\* nil when k is unbound; and a command of this session on other keys (any
\* command but a flush) leaves the binding of k as it was.  So, with no other
\* client writing k, get(k) after set(k, v) shows v and get(k) after delete(k)
\* shows nil, whatever this session does to other keys in between.
C16_Step ==
    /\ (Sends /\ Sent[1] = "SET" /\ Printed({"key_set"}))
          => Sent[2][1] \in DOMAIN store' /\ store'[Sent[2][1]] = Sent[2][2]
    /\ (Sends /\ op' = "delete_a_key" /\ Printed({"key_deleted", "key_not_found"}))
          => Sent[2][1] \notin DOMAIN store'
    /\ (Sends /\ Sent[1] = "GET" /\ Printed({"value", "nil"}))
          => /\ store' = store
             /\ screen'[Len(screen')] =
                  IF Sent[2][1] \in DOMAIN store
                  THEN MsgWith("value", store[Sent[2][1]]) ELSE Msg("nil")
    /\ (Sends /\ Sent[1] # "FLUSHDB")
          => \A k \in (DOMAIN store \cup DOMAIN store') \ Named(Sent) :
                SameBinding(store, store', k)

C16_RoundTrip == [][C16_Step]_vars

\* a get shows the value b, which only a set of this session can have
\* written to a key this session can name
C16_Witness ==
    /\ pc = "pause" /\ op = "get_key_data"
    /\ \E i \in 1..Len(screen) : screen[i] = MsgWith("value", S_b)

\* the controller is in the operations loop
InOperations == pc \in {"ops", "pause", "confirm", "deleting"}

\* C17: wherever the controller is in the operations loop, and wherever a
\* handler has sent a command, self.redis_conn is a client, it is the client
\* constructed last, constructed by the connect that returned True from the
\* record and display name run() holds, and current_env_name is that display
\* name.
C17_SessionIsLatestConnect ==
    (InOperations \/ calls # <<>>) =>
        /\ redis_conn # NoConn
        /\ redis_conn.id = conn_seq
        /\ connect_ret = "True"
        /\ attempt.made
        /\ attempt.details = conn_details
        /\ redis_conn.opts = attempt.opts
        /\ current_env_name = PyStrV(display_name)

\* a command was sent on the second client of the run, a custom connection
C17_Witness ==
    /\ pc = "pause" /\ calls # <<>>
    /\ redis_conn.id = 2
    /\ current_env_name = PyStrV(CustomDisplayName(conn_details))

\* the delete calls among the commands the handler has sent after the step
DelSent == {i \in 1..Len(calls') : calls'[i][1] = "DEL"}

\* C18: in a pattern delete, every key of every delete call is a key of the
\* list that was displayed before the confirmation; a delete call leaves every
\* key outside that list as it is, so a matching key another client created
\* after the scan survives; and a scan that fails or finds nothing ends the
\* handler with no confirmation asked and no delete call sent.
C18_Step ==
    /\ (op' = "delete_keys_by_pattern" /\ DelSent # {})
          => /\ \E i \in 1..Len(screen') : screen'[i] = MsgWith("found", keys_to_delete')
             /\ \A i \in DelSent : KeysOf(calls'[i][2]) \subseteq KeysOf(keys_to_delete')
    /\ (pc = "deleting" /\ calls' # calls)
          => \A k \in (DOMAIN store) \ KeysOf(keys_to_delete) : SameBinding(store, store', k)
    /\ (pc = "ops" /\ op' = "delete_keys_by_pattern"
            /\ Printed({"scan_failed", "no_keys_found"}))
          => pc' = "pause" /\ typed' = {} /\ DelSent = {} /\ store' = store
    /\ pc' \in {"confirm", "deleting"}
          => /\ op' = "delete_keys_by_pattern"
             /\ Len(keys_to_delete') > 0
             /\ \E i \in 1..Len(screen') : screen'[i] = MsgWith("found", keys_to_delete')

C18_DeletesOnlyDisplayedKeys == [][C18_Step]_vars

\* a confirmed delete of the keys found for a pattern that user:0003 matches
\* has run, and user:0003, written by another client and not in the list, is
\* in the store
C18_Witness ==
    /\ pc = "pause" /\ op = "delete_keys_by_pattern"
    /\ OnScreen("deleted")
    /\ <<"user", 1>> \in KeysOf(keys_to_delete)
    /\ <<"user", 3>> \notin KeysOf(keys_to_delete)
    /\ <<"user", 3>> \in DOMAIN store

\* C19: at the environment selection, every entry i from 1 to the number of
\* configured environments can be chosen and starts a connect on the i-th
\* environment's record under its upper-cased name; the custom-details prompt
\* is reached by entry n+1 only, and the exit by entry n+2 only.
C19_MenuEntries ==
    pc = "select" =>
        /\ \A i \in 1..Len(env_keys) :
             ENABLED ( /\ SelectConfigured(IntToStr(i))
                       /\ pc' = "connecting"
                       /\ conn_details' = config[env_keys[i]]
                       /\ display_name' = Upper(env_keys[i]) )
        /\ \A c \in ChoiceInputs :
             IntParses(c) =>
                /\ (ENABLED CustomSessionsFew(c)) => ParseInt(c) = Len(env_keys) + 1
                /\ (ENABLED SelectExit(c)) => ParseInt(c) = Len(env_keys) + 2

\* the record of environment n as the configuration file gave it
LoadedRecord(n) == (CHOOSE c \in Configs : c.keys = env_keys).config[n]

\* C20: no step changes the stored configuration, a connect attempt included;
\* and every connect on a configured environment, the first as any later one,
\* is made with the options that the record loaded from the file translates to.
C20_Step ==
    /\ config' = config
    /\ env_keys' = env_keys
    /\ (pc = "connecting" /\ pc' \in {"ack_ok", "ack_fail"})
          => /\ attempt'.made
             /\ \A n \in DOMAIN config :
                   (n # S_custom /\ display_name = Upper(n))
                      => /\ attempt'.details = LoadedRecord(n)
                         /\ attempt'.opts = RedisKwargs(LoadedRecord(n))

C20_ConnectLeavesConfigAlone == [][C20_Step]_vars

\* the second client of a run, constructed for the configured environment dev
\* with the options of its record
C20_Witness ==
    /\ pc = "ops"
    /\ conn_seq = 2 /\ redis_conn.id = 2
    /\ display_name = Upper(S_dev)
    /\ config[S_dev] = DevRecord
    /\ redis_conn.opts = RedisKwargs(DevRecord)

====
